---- MODULE Spec2Model ----
(***************************************************************************)
(* Model of the Business Plan Generator (src/app.py).                      *)
(*                                                                         *)
(* Three specifications share the module:                                  *)
(*   Spec        - two browser sessions running main()'s button handler,   *)
(*                 one script thread per session, interleaved at every     *)
(*                 access to a process-wide location (os.environ, the two  *)
(*                 fixed output files) and at every external call.         *)
(*   SpecExtract - extract_text_from_file applied to bounded files.        *)
(*   SpecPdf     - markdown_to_pdf's line processing applied to bounded    *)
(*                 markdown texts.                                         *)
(* Text is a sequence of one-character strings; "<b>", "</b>" and the      *)
(* bullet are tokens standing for the characters the code inserts.         *)
(***************************************************************************)
EXTENDS Integers, Sequences, FiniteSets, TLC

VARIABLES
    \* ---- main(): per-session script run ----
    pc,                 \* position of the session's script run
    api_key,            \* sidebar text_input value of the run
    uploaded_file,      \* file_uploader value of the run (NoFile = None)
    manual_input,       \* text_area value of the run
    business_description,
    llm,                \* key of the ChatOpenAI client, a local of generate_business_plan
    business_plan_md,   \* response.content of the run
    shown,              \* what the run has put on the page
    md_download,        \* data= of the markdown download button
    pdf_download,       \* data= of the PDF download button
    genCalls,           \* chain.invoke calls of the run
    extractCalls,       \* extract_text_from_file calls of the run
    \* ---- process-wide locations ----
    environ,            \* os.environ["OPENAI_API_KEY"]
    md_file,            \* /home/claude/business_plan.md
    pdf_file,           \* /home/claude/business_plan.pdf
    \* ---- extract_text_from_file as a function ----
    ext_file, ext_result, ext_pc,
    \* ---- markdown_to_pdf as a function ----
    pdf_text, pdf_story, pdf_pc

mainVars == <<pc, api_key, uploaded_file, manual_input, business_description,
              llm, business_plan_md, shown, md_download, pdf_download,
              genCalls, extractCalls, environ, md_file, pdf_file>>
extVars  == <<ext_file, ext_result, ext_pc>>
pdfVars  == <<pdf_text, pdf_story, pdf_pc>>
vars     == <<mainVars, extVars, pdfVars>>

----------------------------------------------------------------------------
(* Bounds *)
MaxLen   == 5     \* longest markdown text given to markdown_to_pdf
MaxParts == 2     \* most pages / paragraphs of an uploaded document
MaxBytes == 2     \* most bytes of an uploaded text file

----------------------------------------------------------------------------
(* Text helpers (Python str methods) *)

SeqsUpTo(S, n) == UNION { [1..k -> S] : k \in 0..n }

IsSpace(c) == c \in {" ", "\n"}

RECURSIVE lstrip(_)
lstrip(s) == IF s # <<>> /\ IsSpace(Head(s)) THEN lstrip(Tail(s)) ELSE s

RECURSIVE rstrip(_)
rstrip(s) == IF s # <<>> /\ IsSpace(s[Len(s)])
             THEN rstrip(SubSeq(s, 1, Len(s) - 1)) ELSE s

strip(s) == rstrip(lstrip(s))

startswith(s, p) == Len(s) >= Len(p) /\ SubSeq(s, 1, Len(p)) = p

\* s[n:]
From(s, n) == SubSeq(s, n + 1, Len(s))

\* s.split(sep) for a one-character separator
RECURSIVE split(_, _)
split(s, sep) ==
    IF \A i \in 1..Len(s) : s[i] # sep THEN <<s>>
    ELSE LET i == CHOOSE j \in 1..Len(s) :
                      s[j] = sep /\ \A k \in 1..(j - 1) : s[k] # sep
         IN <<SubSeq(s, 1, i - 1)>> \o split(From(s, i), sep)

\* sep.join(parts)
RECURSIVE join(_, _)
join(sep, parts) ==
    IF parts = <<>> THEN <<>>
    ELSE IF Len(parts) = 1 THEN parts[1]
    ELSE parts[1] \o sep \o join(sep, Tail(parts))

lowerChar(c) ==
    CASE c = "P" -> "p" [] c = "D" -> "d" [] c = "F" -> "f" [] OTHER -> c

lower(s) == [i \in 1..Len(s) |-> lowerChar(s[i])]

\* s.replace('**', tok): left to right, non-overlapping, every occurrence
RECURSIVE replace(_, _)
replace(s, tok) ==
    IF s = <<>> THEN <<>>
    ELSE IF Len(s) >= 2 /\ s[1] = "*" /\ s[2] = "*"
         THEN <<tok>> \o replace(From(s, 2), tok)
         ELSE <<s[1]>> \o replace(Tail(s), tok)

\* '**' in s
HasStars(s) == \E i \in 1..(Len(s) - 1) : s[i] = "*" /\ s[i + 1] = "*"

isdigit(c) == c \in {"0", "1", "2", "3", "4", "5", "6", "7", "8", "9"}

----------------------------------------------------------------------------
(* Uploaded files.  parts: the page texts PyPDF2 yields (pdf) or the       *)
(* paragraph texts python-docx yields (docx); data: the raw bytes read()   *)
(* yields; corrupt: the parser (PdfReader / Document) raises on the file.  *)

NoFile == [name |-> <<>>, parts |-> <<>>, data |-> <<>>, corrupt |-> FALSE]

\* bytes.decode('utf-8') on the byte values the model uses
Utf8Valid(b) == b < 128

utf8char(b) == CASE b = 97 -> "a" [] b = 10 -> "\n" [] OTHER -> "?"

decode(data) == [i \in 1..Len(data) |-> utf8char(data[i])]

\* uploaded_file.name.split('.')[-1].lower()
file_extension(f) ==
    LET pieces == split(f.name, ".") IN lower(pieces[Len(pieces)])

RECURSIVE pdf_pages_text(_)
pdf_pages_text(pages) ==
    IF pages = <<>> THEN <<>>
    ELSE pages[1] \o <<"\n">> \o pdf_pages_text(Tail(pages))

StrResult(t)   == [kind |-> "str",   text |-> t,    error |-> "none"]
RaiseResult(e) == [kind |-> "raise", text |-> <<>>, error |-> e]
NoneResult(e)  == [kind |-> "None",  text |-> <<>>, error |-> e]

extract_text_from_file(f) ==
    LET ext == file_extension(f) IN
    IF ext = <<"p", "d", "f">> THEN
        IF f.corrupt THEN RaiseResult("ParseError")
        ELSE StrResult(pdf_pages_text(f.parts))
    ELSE IF ext = <<"d", "o", "c", "x">> THEN
        IF f.corrupt THEN RaiseResult("ParseError")
        ELSE StrResult(join(<<"\n">>, f.parts))
    ELSE IF ext = <<"t", "x", "t">> THEN
        IF \E i \in 1..Len(f.data) : ~Utf8Valid(f.data[i])
        THEN RaiseResult("UnicodeDecodeError")
        ELSE StrResult(decode(f.data))
    ELSE NoneResult("Unsupported file format")

\* Python truthiness of the extractor's return value
Truthy(r) == r.kind = "str" /\ r.text # <<>>

----------------------------------------------------------------------------
(* SpecExtract: extract_text_from_file on bounded files *)

FileNames ==
    { <<"a", ".", "p", "d", "f">>,
      <<"a", ".", "P", "D", "F">>,
      <<"a", ".", "d", "o", "c", "x">>,
      <<"a", ".", "t", "x", "t">>,
      <<"a", ".", "p", "d", "f", ".", "t", "x", "t">>,
      <<"p", "d", "f">>,
      <<"a", ".", "e", "x", "e">>,
      <<"a", ".", "t", "x", "t", ".", "e", "x", "e">>,
      <<"a">> }

PartTexts == { <<>>, <<"a">> }
ByteVals  == { 97, 255 }

ExtFiles ==
    [name : FileNames, parts : SeqsUpTo(PartTexts, MaxParts),
     data : SeqsUpTo(ByteVals, MaxBytes), corrupt : BOOLEAN]

NoExtResult == [kind |-> "unset", text |-> <<>>, error |-> "none"]

ExtractCall ==
    /\ ext_pc = "call"
    /\ ext_result' = extract_text_from_file(ext_file)
    /\ ext_pc' = "returned"
    /\ UNCHANGED <<ext_file, mainVars, pdfVars>>

----------------------------------------------------------------------------
(* markdown_to_pdf: the story (list of flowables) built from the text *)

Spacer(h)          == [type |-> "Spacer",    text |-> <<>>, style |-> h]
Paragraph(t, sty)  == [type |-> "Paragraph", text |-> t,    style |-> sty]
PageBreak          == [type |-> "PageBreak", text |-> <<>>, style |-> "none"]

\* the title page; the date is whatever datetime.now() gives
title_page ==
    << Spacer("2inch"),
       Paragraph(<<"BUSINESS PLAN">>, "title_style"),
       Spacer("0.3inch"),
       Paragraph(<<"Generated on ", "DATE">>, "Normal"),
       PageBreak >>

\* the bold branch: line.replace('**', '<b>').replace('**', '</b>')
bold_markup(line) == replace(replace(line, "<b>"), "</b>")

\* one iteration of the loop over lines: the flowable appended for a line
flowable(raw) ==
    LET line == strip(raw) IN
    IF line = <<>> THEN Spacer("12")
    ELSE IF startswith(line, <<"#", " ">>)
        THEN Paragraph(strip(From(line, 2)), "heading1_style")
    ELSE IF startswith(line, <<"#", "#", " ">>)
        THEN Paragraph(strip(From(line, 3)), "heading2_style")
    ELSE IF startswith(line, <<"#", "#", "#", " ">>)
        THEN Paragraph(strip(From(line, 4)), "heading3_style")
    ELSE IF startswith(line, <<"#", "#", "#", "#", " ">>)
        THEN Paragraph(strip(From(line, 5)), "heading3_style")
    ELSE IF startswith(line, <<"-", " ">>) \/ startswith(line, <<"*", " ">>)
        THEN Paragraph(<<"BULLET", " ">> \o strip(From(line, 2)), "bullet_style")
    ELSE IF Len(line) > 2 /\ isdigit(line[1])
            /\ SubSeq(line, 2, 3) \in { <<".", " ">>, <<")", " ">> }
        THEN Paragraph(line, "bullet_style")
    ELSE IF HasStars(line)
        THEN Paragraph(bold_markup(line), "body_style")
    ELSE Paragraph(line, "body_style")

\* the line reaches the "Handle bold text" branch
ReachesBold(raw) ==
    LET line == strip(raw) IN
    /\ line # <<>>
    /\ ~startswith(line, <<"#", " ">>)
    /\ ~startswith(line, <<"#", "#", " ">>)
    /\ ~startswith(line, <<"#", "#", "#", " ">>)
    /\ ~startswith(line, <<"#", "#", "#", "#", " ">>)
    /\ ~startswith(line, <<"-", " ">>)
    /\ ~startswith(line, <<"*", " ">>)
    /\ ~(Len(line) > 2 /\ isdigit(line[1])
         /\ SubSeq(line, 2, 3) \in { <<".", " ">>, <<")", " ">> })
    /\ HasStars(line)

markdown_to_pdf(markdown_text) ==
    LET lines == split(markdown_text, "\n")
    IN title_page \o [i \in 1..Len(lines) |-> flowable(lines[i])]

----------------------------------------------------------------------------
(* SpecPdf: markdown_to_pdf on bounded markdown texts *)

MdChars == { "a", "*", " ", "#", "\n", "1", "." }

MdTexts == SeqsUpTo(MdChars, MaxLen)

PdfCall ==
    /\ pdf_pc = "call"
    /\ pdf_story' = markdown_to_pdf(pdf_text)
    /\ pdf_pc' = "returned"
    /\ UNCHANGED <<pdf_text, mainVars, extVars>>

----------------------------------------------------------------------------
(* Spec: main()'s button handler, one script thread per browser session *)

Sessions == { "s1", "s2" }

\* what the user of a session may type into the sidebar ("" = left empty)
KeyOf(s) == IF s = "s1" THEN "key1" ELSE "key2"
ApiKeys(s) == { "", KeyOf(s) }

\* what the file_uploader (type=['pdf','docx','txt']) may hold
EmptyTxt   == [name |-> <<"a", ".", "t", "x", "t">>, parts |-> <<>>,
               data |-> <<>>, corrupt |-> FALSE]
SomeTxt    == [name |-> <<"a", ".", "t", "x", "t">>, parts |-> <<>>,
               data |-> <<97>>, corrupt |-> FALSE]
CorruptPdf == [name |-> <<"a", ".", "p", "d", "f">>, parts |-> <<>>,
               data |-> <<>>, corrupt |-> TRUE]
Uploads == { NoFile, EmptyTxt, SomeTxt, CorruptPdf }

\* what the text_area may hold (<<>> = left empty)
ManualInputs == { <<>>, <<"m">> }

\* what the model may answer
Plans == { <<"#", " ", "A">>, <<"b">> }

NoDescription == [kind |-> "None", text |-> <<>>, error |-> "none"]
NoDownload    == [set |-> FALSE, data |-> <<>>]
NoSuchFile    == [exists |-> FALSE, data |-> <<>>, by |-> "none"]

Finished(s) == pc[s] \in { "idle", "done" }

\* positions at which the run is about to make a Streamlit call; a press
\* of the button while the run is in flight stops the run there and
\* starts the script again
YieldPoints == { "setenv", "invoke", "openmd", "readmd", "readpdf" }

Show(s, item) == shown' = [shown EXCEPT ![s] = @ \cup { item }]

\* the caught exception of lines 452-454
HandlerError(s, e) ==
    /\ Show(s, <<"st.error", e>>)
    /\ pc' = [pc EXCEPT ![s] = "done"]

\* the state of a fresh server process: no session has run the script
MainOff ==
    /\ pc = [s \in Sessions |-> "idle"]
    /\ api_key = [s \in Sessions |-> ""]
    /\ uploaded_file = [s \in Sessions |-> NoFile]
    /\ manual_input = [s \in Sessions |-> <<>>]
    /\ business_description = [s \in Sessions |-> NoDescription]
    /\ llm = [s \in Sessions |-> "none"]
    /\ business_plan_md = [s \in Sessions |-> <<>>]
    /\ shown = [s \in Sessions |-> {}]
    /\ md_download = [s \in Sessions |-> NoDownload]
    /\ pdf_download = [s \in Sessions |-> NoDownload]
    /\ genCalls = [s \in Sessions |-> 0]
    /\ extractCalls = [s \in Sessions |-> 0]
    /\ environ = "unset"
    /\ md_file = NoSuchFile
    /\ pdf_file = NoSuchFile

Init ==
    /\ MainOff
    /\ ext_file = NoFile /\ ext_result = NoExtResult /\ ext_pc = "off"
    /\ pdf_text = <<>> /\ pdf_story = <<>> /\ pdf_pc = "off"

\* lines 385-401 without the final else: a press with neither file nor text
\* falls through to generation with the empty text
PressNoInputCheck(s, key, file, text) ==
    /\ Finished(s) \/ pc[s] \in YieldPoints
    /\ api_key' = [api_key EXCEPT ![s] = key]
    /\ uploaded_file' = [uploaded_file EXCEPT ![s] = file]
    /\ manual_input' = [manual_input EXCEPT ![s] = text]
    /\ llm' = [llm EXCEPT ![s] = "none"]
    /\ business_plan_md' = [business_plan_md EXCEPT ![s] = <<>>]
    /\ md_download' = [md_download EXCEPT ![s] = NoDownload]
    /\ pdf_download' = [pdf_download EXCEPT ![s] = NoDownload]
    /\ genCalls' = [genCalls EXCEPT ![s] = 0]
    /\ extractCalls' = [extractCalls EXCEPT ![s] = 0]
    /\ IF key = ""
       THEN /\ shown' = [shown EXCEPT ![s] = { <<"st.error", "NoApiKey">> }]
            /\ business_description' =
                   [business_description EXCEPT ![s] = NoDescription]
            /\ pc' = [pc EXCEPT ![s] = "done"]
       ELSE IF file # NoFile
       THEN /\ shown' = [shown EXCEPT ![s] = {}]
            /\ business_description' =
                   [business_description EXCEPT ![s] = NoDescription]
            /\ pc' = [pc EXCEPT ![s] = "extract"]
       ELSE /\ shown' = [shown EXCEPT ![s] = {}]
            /\ business_description' =
                   [business_description EXCEPT ![s] = StrResult(text)]
            /\ pc' = [pc EXCEPT ![s] = "setenv"]
    /\ UNCHANGED <<environ, md_file, pdf_file, extVars, pdfVars>>

\* lines 385-401: the button is pressed with the widgets holding key, file
\* and text; the script reruns from the top with an empty page
Press(s, key, file, text) ==
    /\ Finished(s) \/ pc[s] \in YieldPoints
    /\ api_key' = [api_key EXCEPT ![s] = key]
    /\ uploaded_file' = [uploaded_file EXCEPT ![s] = file]
    /\ manual_input' = [manual_input EXCEPT ![s] = text]
    /\ llm' = [llm EXCEPT ![s] = "none"]
    /\ business_plan_md' = [business_plan_md EXCEPT ![s] = <<>>]
    /\ md_download' = [md_download EXCEPT ![s] = NoDownload]
    /\ pdf_download' = [pdf_download EXCEPT ![s] = NoDownload]
    /\ genCalls' = [genCalls EXCEPT ![s] = 0]
    /\ extractCalls' = [extractCalls EXCEPT ![s] = 0]
    /\ IF key = ""
       THEN /\ shown' = [shown EXCEPT ![s] = { <<"st.error", "NoApiKey">> }]
            /\ business_description' =
                   [business_description EXCEPT ![s] = NoDescription]
            /\ pc' = [pc EXCEPT ![s] = "done"]
       ELSE IF file # NoFile
       THEN /\ shown' = [shown EXCEPT ![s] = {}]
            /\ business_description' =
                   [business_description EXCEPT ![s] = NoDescription]
            /\ pc' = [pc EXCEPT ![s] = "extract"]
       ELSE IF text # <<>>
       THEN /\ shown' = [shown EXCEPT ![s] = {}]
            /\ business_description' =
                   [business_description EXCEPT ![s] = StrResult(text)]
            /\ pc' = [pc EXCEPT ![s] = "setenv"]
       ELSE /\ shown' = [shown EXCEPT ![s] = { <<"st.error", "NoInput">> }]
            /\ business_description' =
                   [business_description EXCEPT ![s] = NoDescription]
            /\ pc' = [pc EXCEPT ![s] = "done"]
    /\ UNCHANGED <<environ, md_file, pdf_file, extVars, pdfVars>>

\* lines 393-396 and 403: the extractor call, outside the try block
Extract(s) ==
    /\ pc[s] = "extract"
    /\ extractCalls' = [extractCalls EXCEPT ![s] = @ + 1]
    /\ LET r == extract_text_from_file(uploaded_file[s]) IN
       IF r.kind = "raise"
       THEN /\ Show(s, <<"uncaught", r.error>>)
            /\ pc' = [pc EXCEPT ![s] = "done"]
            /\ UNCHANGED business_description
       ELSE /\ business_description' = [business_description EXCEPT ![s] = r]
            /\ IF r.kind = "None"
               THEN /\ Show(s, <<"st.error", r.error>>)
                    /\ pc' = [pc EXCEPT ![s] = "done"]
               ELSE IF Truthy(r)
               THEN /\ Show(s, <<"st.success", "extracted">>)
                    /\ pc' = [pc EXCEPT ![s] = "setenv"]
               ELSE /\ UNCHANGED shown
                    /\ pc' = [pc EXCEPT ![s] = "done"]
    /\ UNCHANGED <<api_key, uploaded_file, manual_input, llm, business_plan_md,
                   md_download, pdf_download, genCalls,
                   environ, md_file, pdf_file, extVars, pdfVars>>

\* line 73: os.environ["OPENAI_API_KEY"] = api_key
SetEnv(s) ==
    /\ pc[s] = "setenv"
    /\ environ' = api_key[s]
    /\ pc' = [pc EXCEPT ![s] = "buildllm"]
    /\ UNCHANGED <<api_key, uploaded_file, manual_input, business_description,
                   llm, business_plan_md, shown, md_download, pdf_download,
                   genCalls, extractCalls, md_file, pdf_file,
                   extVars, pdfVars>>

\* lines 76-80: ChatOpenAI(...) takes its key from the environment
BuildLLM(s) ==
    /\ pc[s] = "buildllm"
    /\ llm' = [llm EXCEPT ![s] = environ]
    /\ pc' = [pc EXCEPT ![s] = "invoke"]
    /\ UNCHANGED <<api_key, uploaded_file, manual_input, business_description,
                   business_plan_md, shown, md_download, pdf_download,
                   genCalls, extractCalls, environ, md_file,
                   pdf_file, extVars, pdfVars>>

\* lines 170-173 with a provider that is called again after a failure
InvokeFailRetry(s) ==
    /\ pc[s] = "invoke"
    /\ genCalls[s] < 2
    /\ genCalls' = [genCalls EXCEPT ![s] = @ + 1]
    /\ UNCHANGED <<pc, shown, api_key, uploaded_file, manual_input,
                   business_description, llm, business_plan_md, md_download,
                   pdf_download, extractCalls, environ, md_file,
                   pdf_file, extVars, pdfVars>>

\* lines 170-173: chain.invoke returns the plan
InvokeOk(s, plan) ==
    /\ pc[s] = "invoke"
    /\ genCalls' = [genCalls EXCEPT ![s] = @ + 1]
    /\ business_plan_md' = [business_plan_md EXCEPT ![s] = plan]
    /\ llm' = [llm EXCEPT ![s] = "none"]
    /\ pc' = [pc EXCEPT ![s] = "openmd"]
    /\ UNCHANGED <<api_key, uploaded_file, manual_input, business_description,
                   shown, md_download, pdf_download, extractCalls, environ, md_file, pdf_file, extVars, pdfVars>>

\* lines 170-173 and 452-454: chain.invoke raises
InvokeFail(s) ==
    /\ pc[s] = "invoke"
    /\ genCalls' = [genCalls EXCEPT ![s] = @ + 1]
    /\ HandlerError(s, "ProviderError")
    /\ llm' = [llm EXCEPT ![s] = "none"]
    /\ UNCHANGED <<api_key, uploaded_file, manual_input, business_description,
                   business_plan_md, md_download, pdf_download,
                   extractCalls, environ, md_file, pdf_file,
                   extVars, pdfVars>>

\* line 414: open(md_path, 'w') creates or truncates the file
OpenMdOk(s) ==
    /\ pc[s] = "openmd"
    /\ md_file' = [exists |-> TRUE, data |-> <<>>, by |-> s]
    /\ pc' = [pc EXCEPT ![s] = "writemd"]
    /\ UNCHANGED <<api_key, uploaded_file, manual_input, business_description,
                   llm, business_plan_md, shown, md_download, pdf_download,
                   genCalls, extractCalls, environ, pdf_file,
                   extVars, pdfVars>>

\* line 414 and 452-454: open raises (no directory, no permission)
OpenMdFail(s) ==
    /\ pc[s] = "openmd"
    /\ HandlerError(s, "OSError")
    /\ UNCHANGED <<api_key, uploaded_file, manual_input, business_description,
                   llm, business_plan_md, md_download, pdf_download,
                   genCalls, extractCalls, environ, md_file,
                   pdf_file, extVars, pdfVars>>

\* line 415 and the close of the with block: the plan goes to offset 0 of
\* the run's own handle, over whatever the file holds by then
WriteMd(s) ==
    /\ pc[s] = "writemd"
    /\ LET plan == business_plan_md[s] IN
       md_file' = [exists |-> TRUE,
                   data   |-> plan \o From(md_file.data, Len(plan)),
                   by     |-> s]
    /\ pc' = [pc EXCEPT ![s] = "pdf"]
    /\ UNCHANGED <<api_key, uploaded_file, manual_input, business_description,
                   llm, business_plan_md, shown, md_download, pdf_download,
                   genCalls, extractCalls, environ, pdf_file,
                   extVars, pdfVars>>

\* lines 419-429: the PDF is built and written, the plan is displayed
PdfOk(s) ==
    /\ pc[s] = "pdf"
    /\ pdf_file' = [exists |-> TRUE,
                    data   |-> markdown_to_pdf(business_plan_md[s]),
                    by     |-> s]
    /\ shown' = [shown EXCEPT ![s] =
                    @ \cup { <<"st.markdown", "generated successfully">>,
                             <<"st.markdown", "plan">> }]
    /\ pc' = [pc EXCEPT ![s] = "readmd"]
    /\ UNCHANGED <<api_key, uploaded_file, manual_input, business_description,
                   llm, business_plan_md, md_download, pdf_download,
                   genCalls, extractCalls, environ, md_file,
                   extVars, pdfVars>>

\* line 419 and 452-454: markdown_to_pdf raises
PdfFail(s) ==
    /\ pc[s] = "pdf"
    /\ HandlerError(s, "RenderError")
    /\ UNCHANGED <<api_key, uploaded_file, manual_input, business_description,
                   llm, business_plan_md, md_download, pdf_download,
                   genCalls, extractCalls, environ, md_file,
                   pdf_file, extVars, pdfVars>>

\* lines 434-441: the markdown file is read back for the download button
ReadMd(s) ==
    /\ pc[s] = "readmd"
    /\ md_download' = [md_download EXCEPT ![s] =
                          [set |-> TRUE, data |-> md_file.data]]
    /\ Show(s, <<"st.download_button", "md">>)
    /\ pc' = [pc EXCEPT ![s] = "readpdf"]
    /\ UNCHANGED <<api_key, uploaded_file, manual_input, business_description,
                   llm, business_plan_md, pdf_download, genCalls,
                   extractCalls, environ, md_file, pdf_file,
                   extVars, pdfVars>>

\* lines 443-450: the PDF file is read back for the download button
ReadPdf(s) ==
    /\ pc[s] = "readpdf"
    /\ pdf_download' = [pdf_download EXCEPT ![s] =
                           [set |-> TRUE, data |-> pdf_file.data]]
    /\ Show(s, <<"st.download_button", "pdf">>)
    /\ pc' = [pc EXCEPT ![s] = "done"]
    /\ UNCHANGED <<api_key, uploaded_file, manual_input, business_description,
                   llm, business_plan_md, md_download, genCalls,
                   extractCalls, environ, md_file, pdf_file,
                   extVars, pdfVars>>

Next ==
    \E s \in Sessions :
        \/ \E key \in ApiKeys(s), file \in Uploads, text \in ManualInputs :
               Press(s, key, file, text)
        \/ Extract(s)
        \/ SetEnv(s)
        \/ BuildLLM(s)
        \/ \E plan \in Plans : InvokeOk(s, plan)
        \/ InvokeFail(s)
        \/ OpenMdOk(s)
        \/ OpenMdFail(s)
        \/ WriteMd(s)
        \/ PdfOk(s)
        \/ PdfFail(s)
        \/ ReadMd(s)
        \/ ReadPdf(s)

Spec == Init /\ [][Next]_vars

----------------------------------------------------------------------------
(* The two function specifications *)

InitExtract ==
    /\ MainOff
    /\ ext_file \in ExtFiles /\ ext_result = NoExtResult /\ ext_pc = "call"
    /\ pdf_text = <<>> /\ pdf_story = <<>> /\ pdf_pc = "off"

NextExtract == ExtractCall

SpecExtract == InitExtract /\ [][NextExtract]_vars

InitPdf ==
    /\ MainOff
    /\ ext_file = NoFile /\ ext_result = NoExtResult /\ ext_pc = "off"
    /\ pdf_text \in MdTexts /\ pdf_story = <<>> /\ pdf_pc = "call"

NextPdf == PdfCall

SpecPdf == InitPdf /\ [][NextPdf]_vars

----------------------------------------------------------------------------
(* Vocabulary of the properties *)

Other(s) == CHOOSE t \in Sessions : t # s

ErrorCauses ==
    { "ParseError", "UnicodeDecodeError", "ProviderError", "OSError",
      "RenderError" }

\* the run has reported an error to the user
ErrorReported(s) ==
    \E item \in shown[s] : item[1] \in { "st.error", "uncaught" }

\* the run has reported the failure of a stage, with its cause
FailureReported(s) ==
    \E item \in shown[s] :
        item[1] \in { "st.error", "uncaught" } /\ item[2] \in ErrorCauses

\* the run was turned away before any work was done
Rejected(s) ==
    /\ pc[s] = "done"
    /\ \E item \in shown[s] :
           item[1] = "st.error" /\ item[2] \in { "NoApiKey", "NoInput" }

PlanPresented(s) == <<"st.markdown", "plan">> \in shown[s]

\* the run has written the markdown file and it is still the last writer
MdOfRunOnDisk(s) ==
    /\ md_file.exists /\ md_file.by = s
    /\ \/ pc[s] \in { "pdf", "readmd", "readpdf" }
       \/ pc[s] = "done" /\ <<"st.error", "RenderError">> \in shown[s]
       \/ pc[s] = "done" /\ PlanPresented(s)

\* the run has written a process-wide location / is about to access it
WroteEnv(s) ==
    pc[s] \in { "buildllm", "invoke", "openmd", "writemd", "pdf", "readmd",
                "readpdf" } /\ environ = api_key[s]
WroteMd(s)  == pc[s] \in { "writemd", "pdf", "readmd", "readpdf" }
               /\ md_file.by = s
WrotePdf(s) == pc[s] \in { "readmd", "readpdf" } /\ pdf_file.by = s
AccessesEnv(s) == pc[s] \in { "setenv", "buildllm" }
AccessesMd(s)  == pc[s] \in { "openmd", "writemd", "readmd" }
AccessesPdf(s) == pc[s] \in { "pdf", "readpdf" }

----------------------------------------------------------------------------
(* Properties *)

\* C1: while two sessions' requests are both in flight, neither is about to
\* read or write a process-wide location (the environment variable, the two
\* fixed file paths) that the other one's request has written.
C1_NoSharedGlobalState ==
    \A s \in Sessions :
        LET t == Other(s) IN
        /\ ~(WroteEnv(t) /\ AccessesEnv(s))
        /\ ~(WroteMd(t)  /\ AccessesMd(s))
        /\ ~(WrotePdf(t) /\ AccessesPdf(s))

\* C2: a request made with no uploaded file and no pasted description ends
\* at once with an error shown to the user (the missing-input error when a
\* key was given) and never invokes the generator or presents a plan.
C2_NoInputRejected ==
    \A s \in Sessions :
        (pc[s] # "idle" /\ uploaded_file[s] = NoFile /\ manual_input[s] = <<>>)
        => /\ Rejected(s)
           /\ (api_key[s] # "" => <<"st.error", "NoInput">> \in shown[s])
           /\ genCalls[s] = 0
           /\ extractCalls[s] = 0
           /\ ~PlanPresented(s)

C2_Witness ==
    \E s \in Sessions :
        /\ pc[s] = "done" /\ api_key[s] = KeyOf(s)
        /\ uploaded_file[s] = NoFile /\ manual_input[s] = <<>>
        /\ <<"st.error", "NoInput">> \in shown[s]
        /\ genCalls[s] = 0

\* C3: a request that arrives while a request of the same session is in
\* flight is turned away: it is never admitted to extraction or generation.
C3_SecondRequestRejected ==
    [][\A s \in Sessions :
          pc[s] \in YieldPoints
          => ~(\/ pc'[s] = "extract"
               \/ pc'[s] = "setenv" /\ pc[s] # "setenv")]_vars

\* C4: a request that ended in a failure reports the failure with its cause
\* and leaves none of its outputs observable: no plan on the page, no
\* download button, no markdown or PDF file written by it.
C4_FailureLeavesNothing ==
    \A s \in Sessions :
        (pc[s] = "done" /\ FailureReported(s))
        => /\ ~PlanPresented(s)
           /\ ~md_download[s].set /\ ~pdf_download[s].set
           /\ ~MdOfRunOnDisk(s)

\* C6: every finished request has either presented a plan or reported an
\* error.
C6_NoSilentEnd ==
    \A s \in Sessions :
        pc[s] = "done" => (PlanPresented(s) \/ ErrorReported(s))

\* C7: within one request the generator is invoked at most once and the
\* extractor at most once; once a provider or extractor call has failed the
\* request is over and no further call has been made.
C7_NoRetries ==
    \A s \in Sessions :
        /\ genCalls[s] <= 1
        /\ extractCalls[s] <= 1
        /\ (<<"st.error", "ProviderError">> \in shown[s]
               => pc[s] = "done" /\ genCalls[s] = 1)
        /\ ((\E item \in shown[s] : item[1] = "uncaught")
               => pc[s] = "done" /\ extractCalls[s] = 1 /\ genCalls[s] = 0)

C7_Witness ==
    \E s \in Sessions :
        /\ pc[s] = "done"
        /\ <<"st.error", "ProviderError">> \in shown[s]
        /\ genCalls[s] = 1 /\ extractCalls[s] = 1

\* C8: what a session's download buttons serve is the plan of that
\* session's own generator call of the same request: the markdown bytes
\* read back equal the plan, the PDF read back is the rendering of the plan.
C8_DownloadsOwnPlan ==
    \A s \in Sessions :
        /\ md_download[s].set => md_download[s].data = business_plan_md[s]
        /\ pdf_download[s].set
               => pdf_download[s].data = markdown_to_pdf(business_plan_md[s])

\* C9: the generator client of a session is configured with the key that
\* session supplied.
C9_OwnApiKey ==
    \A s \in Sessions : pc[s] = "invoke" => llm[s] = api_key[s]

\* the formats the extractor handles, by the extension it computes
Supported(f) ==
    file_extension(f) \in { <<"p", "d", "f">>, <<"d", "o", "c", "x">>,
                            <<"t", "x", "t">> }

\* a readable file of a supported format that holds no text at all
NoExtractableText(f) ==
    IF file_extension(f) = <<"t", "x", "t">>
    THEN f.data = <<>>
    ELSE ~f.corrupt /\ \A i \in 1..Len(f.parts) : f.parts[i] = <<>>

\* C5: the extractor returns the empty string for a file of a supported
\* format with no extractable text, and the unsupported-format error value
\* for a file of any other format.
C5_ExtractorTolerant ==
    ext_pc = "returned"
    => /\ (Supported(ext_file) /\ NoExtractableText(ext_file))
              => ext_result = StrResult(<<>>)
       /\ ~Supported(ext_file)
              => /\ ext_result.kind = "None"
                 /\ ext_result.error = "Unsupported file format"

\* number of '**' markers of a line, counted as str.replace finds them
RECURSIVE Markers(_)
Markers(line) ==
    IF Len(line) < 2 THEN 0
    ELSE IF line[1] = "*" /\ line[2] = "*" THEN 1 + Markers(From(line, 2))
    ELSE Markers(Tail(line))

IsTag(c) == c \in { "<b>", "</b>" }

Tags(t) == SelectSeq(t, IsTag)

Count(t, c) == Cardinality({ i \in 1..Len(t) : t[i] = c })

\* C10: every line that reaches the bold branch yields markup with no '**'
\* left and with its markers turned alternately into <b> and </b>, so 2n
\* markers give n <b> and n </b>; every non-blank line yields one paragraph
\* and every blank line one spacer.
C10_BoldMarkup ==
    pdf_pc = "returned"
    => LET lines == split(pdf_text, "\n")
           body  == From(pdf_story, Len(title_page))
       IN /\ Len(body) = Len(lines)
          /\ \A i \in 1..Len(lines) :
                LET line == strip(lines[i])
                    text == body[i].text
                    n    == Markers(line)
                IN /\ body[i].type =
                          (IF line = <<>> THEN "Spacer" ELSE "Paragraph")
                   /\ ReachesBold(lines[i])
                        => /\ ~HasStars(text)
                           /\ \A k \in 1..Len(Tags(text)) :
                                 Tags(text)[k] =
                                     (IF k % 2 = 1 THEN "<b>" ELSE "</b>")
                           /\ (n % 2 = 0
                                  => /\ Count(text, "<b>") = n \div 2
                                     /\ Count(text, "</b>") = n \div 2)

====
